---- MODULE Spec2Model ----
(***************************************************************************)
(* Softmax loss and gradient of a linear classifier                        *)
(* (assignment1/cs231n/classifiers/softmax.py): softmax_loss_naive and     *)
(* softmax_loss_vectorized, run one after the other on the same caller     *)
(* arrays W, X, y and scalar reg.                                          *)
(*                                                                         *)
(* Floating values are modelled exactly.  Inputs are integers, so every    *)
(* score is an integer and every shifted score is -k for a natural k.      *)
(* With t = exp(-1) a float is a rational combination of the atoms         *)
(*    1,   t^k / P(t)   and   log P(t)                                     *)
(* (P a polynomial in t with natural coefficients), or one of the IEEE     *)
(* specials inf, -inf, nan.  The only rounding that is kept is the one     *)
(* that changes the kind of a value: exp underflows to 0.                  *)
(***************************************************************************)
EXTENDS Integers, Sequences, FiniteSets, TLC

\* ------------------------------------------------------------- bounds
MaxN == 2
MaxD == 2
MaxC == 3
\* the largest input enumerated, by InputSize
MaxSize == 16

\* np.exp(x) is 0.0 for float64 x below about -745.13
ExpUnderflow == 745

WVals == {0, 1, ExpUnderflow + 1}
XVals == {0, 1}
RegVals == {0, 2}

\* ---------------------------------------------------------- rationals
Abs(n) == IF n < 0 THEN -n ELSE n

RECURSIVE GCD(_, _)
GCD(a, b) == IF b = 0 THEN a ELSE GCD(b, a % b)

RNorm(n, d) ==
  LET g == GCD(Abs(n), Abs(d))
      s == IF d < 0 THEN -1 ELSE 1
  IN  <<(s * n) \div g, (s * d) \div g>>

RZero == <<0, 1>>
ROne == <<1, 1>>
RInt(n) == <<n, 1>>
RAdd(p, q) == RNorm(p[1] * q[2] + q[1] * p[2], p[2] * q[2])
RMul(p, q) == RNorm(p[1] * q[1], p[2] * q[2])
RNeg(p) == <<-p[1], p[2]>>
RLess(p, q) == p[1] * q[2] < q[1] * p[2]

\* ------------------------------------------------------------- floats
\* A polynomial in t is the set of its <<exponent, coefficient>> terms.
OnePoly == {<<0, 1>>}
PolyCoef(P, k) == IF \E q \in P : q[1] = k THEN (CHOOSE q \in P : q[1] = k)[2] ELSE 0

OneAtom == [kind |-> "one", k |-> 0, P |-> {}]
FracAtom(k, P) == [kind |-> "frac", k |-> k, P |-> P]
LogAtom(P) == [kind |-> "log", k |-> 0, P |-> P]

EmptyMap == [a \in {} |-> RZero]
Coeff(v, a) == IF a \in DOMAIN v THEN v[a] ELSE RZero
Prune(f) == [a \in {x \in DOMAIN f : f[x] # RZero} |-> f[a]]

Fin(v) == [tag |-> "fin", v |-> v]
NaN == [tag |-> "nan", v |-> EmptyMap]
PInf == [tag |-> "inf", v |-> EmptyMap]
NInf == [tag |-> "ninf", v |-> EmptyMap]
Const(r) == Fin(Prune([a \in {OneAtom} |-> r]))
NInt(n) == Const(RInt(n))
Zero == NInt(0)
One == NInt(1)

IsFinite(a) == a.tag = "fin"
IsConst(a) == a.tag = "fin" /\ DOMAIN a.v \subseteq {OneAtom}
ConstOf(a) == Coeff(a.v, OneAtom)

\* float + float
NAdd(a, b) ==
  IF a.tag = "nan" \/ b.tag = "nan" THEN NaN
  ELSE IF a.tag = "fin" /\ b.tag = "fin"
    THEN Fin(Prune([x \in DOMAIN a.v \cup DOMAIN b.v |-> RAdd(Coeff(a.v, x), Coeff(b.v, x))]))
  ELSE IF a.tag = "fin" THEN b
  ELSE IF b.tag = "fin" THEN a
  ELSE IF a.tag = b.tag THEN a
  ELSE NaN

\* rational constant * float (0 * inf is nan)
NScale(r, a) ==
  CASE a.tag = "nan" -> NaN
    [] a.tag = "fin" -> IF r = RZero THEN Zero ELSE Fin([x \in DOMAIN a.v |-> RMul(r, a.v[x])])
    [] a.tag \in {"inf", "ninf"} ->
         IF r = RZero THEN NaN
         ELSE IF RLess(RZero, r) THEN a
         ELSE IF a.tag = "inf" THEN NInf ELSE PInf

NNeg(a) == NScale(RInt(-1), a)
NSub(a, b) == NAdd(a, NNeg(b))

\* float * float; the source never multiplies two non-constant values
NMul(a, b) ==
  CASE a.tag = "nan" \/ b.tag = "nan" -> NaN
    [] a.tag # "nan" /\ b.tag # "nan" /\ IsConst(a) -> NScale(ConstOf(a), b)
    [] a.tag # "nan" /\ b.tag # "nan" /\ ~IsConst(a) /\ IsConst(b) -> NScale(ConstOf(b), a)

\* numpy float / int n: x/0 is nan for x = 0 and a signed inf otherwise
NDivInt(a, n) ==
  CASE n # 0 -> NScale(RNorm(1, n), a)
    [] n = 0 /\ a.tag # "fin" -> a
    [] n = 0 /\ a = Zero -> NaN
    [] n = 0 /\ IsConst(a) /\ a # Zero -> IF RLess(RZero, ConstOf(a)) THEN PInf ELSE NInf

RECURSIVE NSumSet(_, _)
\* the sum of F[x] over the finite set S
NSumSet(S, F) ==
  IF S = {} THEN Zero
  ELSE LET x == CHOOSE x \in S : TRUE IN NAdd(F[x], NSumSet(S \ {x}, F))

\* t^k / P(t) in normal form: since sum_k p_k t^k / P = 1, the atom of exponent 0
\* is rewritten as (1 - sum_{k>0} p_k t^k / P) / p_0
FracNum(k, P) ==
  IF k # 0 THEN Fin([a \in {FracAtom(k, P)} |-> ROne])
  ELSE LET p0 == PolyCoef(P, 0)
           rest == {q \in P : q[1] # 0}
       IN  Fin(Prune([a \in {OneAtom} \cup {FracAtom(q[1], P) : q \in rest} |->
                        IF a = OneAtom THEN RNorm(1, p0) ELSE RNorm(-PolyCoef(P, a.k), p0)]))

\* np.exp of an integer score x <= 0
Exp(x) ==
  LET k == -(ConstOf(x)[1]) IN
  CASE k > ExpUnderflow -> Zero
    [] k >= 0 /\ k <= ExpUnderflow -> FracNum(k, OnePoly)

\* the polynomial a sum of exponentials denotes
PolyOf(b) == {<<x.k, b.v[x][1]>> : x \in DOMAIN b.v}
IsExpSum(b) ==
  /\ b.tag = "fin"
  /\ \A x \in DOMAIN b.v :
       /\ x = OneAtom \/ (x.kind = "frac" /\ x.P = OnePoly)
       /\ b.v[x][2] = 1 /\ b.v[x][1] >= 1

\* float / float, for a a combination of exponentials and b a non-zero sum of them
NDiv(a, b) ==
  LET P == PolyOf(b) IN
  NSumSet(DOMAIN a.v, [x \in DOMAIN a.v |-> NScale(a.v[x], FracNum(x.k, P))])

\* the (k, P) with a = t^k / P, if there is one
IsFracOf(a, k, P) == a = FracNum(k, P)
PosForms(a) ==
  IF ~IsFinite(a) \/ a = Zero THEN {}
  ELSE IF IsConst(a)
    THEN {<<0, {<<0, ConstOf(a)[2]>>}>>} \cap {f \in {<<0, {<<0, ConstOf(a)[2]>>}>>} : ConstOf(a)[1] = 1}
  ELSE LET at == CHOOSE x \in DOMAIN a.v : x.kind # "one" IN
       {f \in {<<at.k, at.P>>, <<0, at.P>>} : at.kind = "frac" /\ IsFracOf(a, f[1], f[2])}

LogPoly(P) == IF P = OnePoly THEN Zero ELSE Fin([a \in {LogAtom(P)} |-> ROne])

\* np.log of a softmax entry: log 0 is -inf, log(t^k / P) is -k - log P
Log(a) ==
  CASE a.tag = "nan" -> NaN
    [] a = Zero -> NInf
    [] PosForms(a) # {} ->
         LET f == CHOOSE f \in PosForms(a) : TRUE
         IN  NSub(NInt(-f[1]), LogPoly(f[2]))

\* ------------------------------------------------------------- arrays
\* A numpy array: its shape and its elements (rows of a 2-d array are sequences).
Arr1(n, F) == [shape |-> <<n>>, a |-> [c \in 1..n |-> F[c]]]
Arr2(n, m, F) == [shape |-> <<n, m>>, a |-> [r \in 1..n |-> [c \in 1..m |-> F[r, c]]]]

RECURSIVE SumTo(_, _)
\* F[1] + ... + F[n]
SumTo(n, F) == IF n = 0 THEN Zero ELSE NAdd(SumTo(n - 1, F), F[n])

RECURSIVE MaxTo(_, _)
\* np.max of the n >= 1 first elements of a sequence of scores
MaxTo(n, xs) ==
  IF n = 1 THEN xs[1]
  ELSE LET m == MaxTo(n - 1, xs) IN IF RLess(ConstOf(m), ConstOf(xs[n])) THEN xs[n] ELSE m

\* np.zeros_like(A)
ZerosLike(A) == Arr2(A.shape[1], A.shape[2], [r \in 1..A.shape[1], c \in 1..A.shape[2] |-> Zero])

\* np.dot(x, B): x of shape (D,), B of shape (D, C)
Dot1(x, B) ==
  Arr1(B.shape[2], [c \in 1..B.shape[2] |-> SumTo(B.shape[1], [d \in 1..B.shape[1] |-> NMul(x[d], B.a[d][c])])])

\* np.dot(A, B): A of shape (n, k), B of shape (k, m)
Dot2(A, B) ==
  Arr2(A.shape[1], B.shape[2],
       [r \in 1..A.shape[1], c \in 1..B.shape[2] |-> SumTo(A.shape[2], [d \in 1..A.shape[2] |-> NMul(A.a[r][d], B.a[d][c])])])

\* A.T
Transpose(A) == Arr2(A.shape[2], A.shape[1], [r \in 1..A.shape[2], c \in 1..A.shape[1] |-> A.a[c][r]])

\* np.sum(A) of a 2-d array
SumAll(A) ==
  SumTo(A.shape[1], [r \in 1..A.shape[1] |-> SumTo(A.shape[2], [c \in 1..A.shape[2] |-> A.a[r][c]])])

\* np.sum(W * W)
SumSquares(A) == SumAll(Arr2(A.shape[1], A.shape[2], [r \in 1..A.shape[1], c \in 1..A.shape[2] |-> NMul(A.a[r][c], A.a[r][c])]))

\* variant: exp_score / np.max(exp_score): the largest exponential is 1
Normalize_ByMax(e, C) == [c \in 1..C |-> e[c]]

\* exp_score / np.sum(exp_score) for one row e of C exponentials
Normalize(e, C) ==
  LET tot == SumTo(C, e) IN [c \in 1..C |-> NDiv(e[c], tot)]

\* --------------------------------------------------------------- state
\* The caller's names W, X and y are bound to these heap cells for the whole run.
Caller == [W |-> 1, X |-> 2, y |-> 3]

NoResult == [kind |-> "none", loss |-> Zero, dW |-> 0, exc |-> "none"]
NoFrame ==
  [dW |-> 0, score |-> 0, exp_score |-> 0, s |-> 0, Y |-> 0, loss |-> Zero,
   i |-> 0, j |-> 0, num_train |-> 0, num_class |-> 0]

\* variant: dW = W: the gradient shares W's cell
AllocZerosLike_Alias(h, w) == [heap |-> h, ref |-> w]

\* dW = np.zeros_like(W): a new cell
AllocZerosLike(h, w) == [heap |-> Append(h, ZerosLike(h[w])), ref |-> Len(h) + 1]

\* ------------------------------------------------- softmax_loss_naive
\* lines 23-24, 32-33
NaiveEnterOp(S) ==
  LET z == AllocZerosLike(S.heap, Caller.W) IN
  [S EXCEPT !.heap = z.heap,
            !.fr = [NoFrame EXCEPT !.dW = z.ref,
                                   !.num_train = S.heap[Caller.X].shape[1],
                                   !.num_class = S.heap[Caller.W].shape[2]],
            !.pc = "n_loop"]

\* score - np.max(score)
ShiftScores(score, C) ==
  LET m == MaxTo(C, score) IN [c \in 1..C |-> NSub(score[c], m)]

\* lines 35-39: the scores, the softmax row and the loss of example i
NaiveExampleOp(S) ==
  LET h == S.heap
      C == S.fr.num_class
      score == Dot1(h[Caller.X].a[S.fr.i + 1], h[Caller.W])
      shifted == Arr1(C, [c \in 1..C |-> ShiftScores(score.a, C)[c]])
      expd == Arr1(C, [c \in 1..C |-> Exp(shifted.a[c])])
      s == Arr1(C, [c \in 1..C |-> Normalize(expd.a, C)[c]])
      n == Len(h)
  IN  [S EXCEPT !.heap = h \o <<score, shifted, expd, s>>,
                !.fr = [@ EXCEPT !.score = n + 1, !.exp_score = n + 3, !.s = n + 4,
                                 !.loss = NSub(@, Log(s.a[h[Caller.y].a[S.fr.i + 1] + 1])),
                                 !.j = 0],
                !.pc = "n_class"]

\* variant: the (s - 1) coefficient on the wrong columns
GradCoeff_Swapped(sj, j, yi) == IF j # yi THEN NSub(sj, One) ELSE sj

\* lines 41-44: the coefficient of X[i,:] added to column j
GradCoeff(sj, j, yi) == IF j = yi THEN NSub(sj, One) ELSE sj

\* lines 40-44: one pass of the loop over the classes, dW[:,j] += coeff * X[i,:].T
NaiveClassOp(S) ==
  LET h == S.heap
      i == S.fr.i
      j == S.fr.j
      x == h[Caller.X].a[i + 1]
      coeff == GradCoeff(h[S.fr.s].a[j + 1], j, h[Caller.y].a[i + 1])
      last == j + 1 = S.fr.num_class
  IN  [S EXCEPT !.heap[S.fr.dW].a =
                   [d \in 1..h[S.fr.dW].shape[1] |->
                      [@[d] EXCEPT ![j + 1] = NAdd(@, NMul(coeff, x[d]))]],
                !.fr = [@ EXCEPT !.j = IF last THEN 0 ELSE j + 1,
                                 !.i = IF last THEN i + 1 ELSE i],
                !.pc = IF last THEN "n_loop" ELSE "n_class"]

\* line 45 with num_train = 0: loss is still the Python float 0.0
NaiveRaiseOp(S) ==
  [S EXCEPT !.ret.naive = [NoResult EXCEPT !.kind = "raise", !.exc = "ZeroDivisionError"],
            !.pc = "v_start"]

\* variant: the regularization term averaged with the data term
NaiveFinalLoss_RegAveraged(loss, n, r, Wa) ==
  NDivInt(NAdd(loss, NMul(NInt(r), SumSquares(Wa))), n)

\* lines 45-46: loss /= num_train; loss += reg * np.sum(W * W)
NaiveFinalLoss(loss, n, r, Wa) == NAdd(NDivInt(loss, n), NMul(NInt(r), SumSquares(Wa)))

\* variant: dW += reg * 2 * W before dW /= num_train
NaiveFinalGrad_RegAveraged(dWa, n, r, Wa) ==
  Arr2(dWa.shape[1], dWa.shape[2],
       [d \in 1..dWa.shape[1], c \in 1..dWa.shape[2] |-> NDivInt(NAdd(dWa.a[d][c], NMul(NInt(r * 2), Wa.a[d][c])), n)])

\* lines 47-48: dW /= num_train; dW += reg * 2 * W
NaiveFinalGrad(dWa, n, r, Wa) ==
  Arr2(dWa.shape[1], dWa.shape[2],
       [d \in 1..dWa.shape[1], c \in 1..dWa.shape[2] |-> NAdd(NDivInt(dWa.a[d][c], n), NMul(NInt(r * 2), Wa.a[d][c]))])

\* lines 45-48, 53
NaiveReturnOp(S) ==
  LET h == S.heap
      n == S.fr.num_train
      loss == NaiveFinalLoss(S.fr.loss, n, S.reg, h[Caller.W])
  IN  [S EXCEPT !.heap[S.fr.dW] = NaiveFinalGrad(h[S.fr.dW], n, S.reg, h[Caller.W]),
                !.fr = [@ EXCEPT !.loss = loss],
                !.ret.naive = [NoResult EXCEPT !.kind = "return", !.loss = loss, !.dW = S.fr.dW],
                !.pc = "v_start"]

\* -------------------------------------------- softmax_loss_vectorized
\* Y = np.zeros((num_train, num_class)); Y[np.arange(num_train), y] = 1
OneHot(n, C, ys) == Arr2(n, C, [r \in 1..n, c \in 1..C |-> IF c = ys[r] + 1 THEN One ELSE Zero])

\* lines 63-64, 72-75
VecEnterOp(S) ==
  LET z == AllocZerosLike(S.heap, Caller.W)
      n == S.heap[Caller.X].shape[1]
      C == S.heap[Caller.W].shape[2]
  IN  [S EXCEPT !.heap = Append(z.heap, OneHot(n, C, S.heap[Caller.y].a)),
                !.fr = [NoFrame EXCEPT !.dW = z.ref, !.Y = Len(z.heap) + 1,
                                       !.num_train = n, !.num_class = C],
                !.pc = "v_score"]

\* lines 76-78: score is shifted in place, exp_score holds the softmax rows
VecScoresOp(S) ==
  LET h == S.heap
      n == S.fr.num_train
      C == S.fr.num_class
      score == Dot2(h[Caller.X], h[Caller.W])
      shifted == Arr2(n, C, [r \in 1..n, c \in 1..C |-> ShiftScores(score.a[r], C)[c]])
      soft == Arr2(n, C, [r \in 1..n, c \in 1..C |-> Normalize([k \in 1..C |-> Exp(shifted.a[r][k])], C)[c]])
  IN  [S EXCEPT !.heap = h \o <<shifted, soft>>,
                !.fr = [@ EXCEPT !.score = Len(h) + 1, !.exp_score = Len(h) + 2],
                !.pc = "v_loss"]

\* variant: the sum of the example losses, not their mean
VecDataLoss_Sum(P, Ya, n) ==
  NNeg(SumAll(Arr2(P.shape[1], P.shape[2], [r \in 1..P.shape[1], c \in 1..P.shape[2] |-> NMul(Log(P.a[r][c]), Ya.a[r][c])])))

\* line 79: -np.sum(np.log(exp_score) * Y) / num_train
VecDataLoss(P, Ya, n) ==
  NDivInt(NNeg(SumAll(Arr2(P.shape[1], P.shape[2], [r \in 1..P.shape[1], c \in 1..P.shape[2] |-> NMul(Log(P.a[r][c]), Ya.a[r][c])]))), n)

VecLossOp(S) ==
  [S EXCEPT !.fr = [@ EXCEPT !.loss = VecDataLoss(S.heap[S.fr.exp_score], S.heap[S.fr.Y], S.fr.num_train)],
            !.pc = "v_grad"]

\* variant: np.dot((exp_score - Y).T, X) / num_train: the gradient transposed
VecDataGrad_Transposed(Xa, P, Ya, n) ==
  LET diff == Arr2(P.shape[1], P.shape[2], [r \in 1..P.shape[1], c \in 1..P.shape[2] |-> NSub(P.a[r][c], Ya.a[r][c])])
      prod == Dot2(Transpose(diff), Xa)
  IN  Arr2(prod.shape[1], prod.shape[2], [d \in 1..prod.shape[1], c \in 1..prod.shape[2] |-> NDivInt(prod.a[d][c], n)])

\* line 80: np.dot(X.T, exp_score - Y) / num_train, a new array
VecDataGrad(Xa, P, Ya, n) ==
  LET diff == Arr2(P.shape[1], P.shape[2], [r \in 1..P.shape[1], c \in 1..P.shape[2] |-> NSub(P.a[r][c], Ya.a[r][c])])
      prod == Dot2(Transpose(Xa), diff)
  IN  Arr2(prod.shape[1], prod.shape[2], [d \in 1..prod.shape[1], c \in 1..prod.shape[2] |-> NDivInt(prod.a[d][c], n)])

VecGradOp(S) ==
  LET h == S.heap IN
  [S EXCEPT !.heap = Append(h, VecDataGrad(h[Caller.X], h[S.fr.exp_score], h[S.fr.Y], S.fr.num_train)),
            !.fr = [@ EXCEPT !.dW = Len(h) + 1],
            !.pc = "v_reg"]

\* line 82: dW += reg * 2 * W
VecRegGrad(dWa, r, Wa) ==
  Arr2(dWa.shape[1], dWa.shape[2], [d \in 1..dWa.shape[1], c \in 1..dWa.shape[2] |-> NAdd(dWa.a[d][c], NMul(NInt(r * 2), Wa.a[d][c]))])

\* lines 81-82, 87
VecReturnOp(S) ==
  LET h == S.heap
      loss == NAdd(S.fr.loss, NMul(NInt(S.reg), SumSquares(h[Caller.W])))
  IN  [S EXCEPT !.heap[S.fr.dW] = VecRegGrad(h[S.fr.dW], S.reg, h[Caller.W]),
                !.fr = [@ EXCEPT !.loss = loss],
                !.ret.vec = [NoResult EXCEPT !.kind = "return", !.loss = loss, !.dW = S.fr.dW],
                !.pc = "done"]

\* ------------------------------------------------------- the program
VARIABLES
  heap,   \* the arrays, by cell
  reg,    \* the caller's regularization strength
  pc,     \* the statement about to run
  fr,     \* the locals of the running call
  ret,    \* what each call returned or raised
  args    \* the arrays and the scalar as the caller passed them

vars == <<heap, reg, pc, fr, ret, args>>

Cur == [heap |-> heap, reg |-> reg, pc |-> pc, fr |-> fr, ret |-> ret]

Becomes(S) ==
  /\ heap' = S.heap
  /\ pc' = S.pc
  /\ fr' = S.fr
  /\ ret' = S.ret
  /\ UNCHANGED <<reg, args>>

\* the caller's arrays: W is (D, C), X is (N, D), y holds N labels in 0..C-1
Start(Wm, Xm, ym, r, N, D, C) ==
  [heap |-> << Arr2(D, C, [d \in 1..D, c \in 1..C |-> NInt(Wm[d][c])]),
               Arr2(N, D, [i \in 1..N, d \in 1..D |-> NInt(Xm[i][d])]),
               Arr1(N, [i \in 1..N |-> ym[i]]) >>,
   reg |-> r, pc |-> "start", fr |-> NoFrame,
   ret |-> [naive |-> NoResult, vec |-> NoResult]]

\* the inputs are enumerated up to a weighted size: a cell of W weighs 3, a cell
\* of X 1 and a label 2
InputSize(N, D, C) == 3 * D * C + N * D + 2 * N

Init ==
  \E N \in 0..MaxN, D \in 1..MaxD, C \in 1..MaxC :
    /\ InputSize(N, D, C) <= MaxSize
    /\ \E Wm \in [1..D -> [1..C -> WVals]], Xm \in [1..N -> [1..D -> XVals]],
          ym \in [1..N -> 0..(C - 1)], r \in RegVals :
         LET S == Start(Wm, Xm, ym, r, N, D, C) IN
         /\ heap = S.heap
         /\ reg = r
         /\ pc = S.pc
         /\ fr = S.fr
         /\ ret = S.ret
         /\ args = [W |-> S.heap[Caller.W], X |-> S.heap[Caller.X], y |-> S.heap[Caller.y], reg |-> r]

NaiveEnter == pc = "start" /\ Becomes(NaiveEnterOp(Cur))
NaiveExample == pc = "n_loop" /\ fr.i < fr.num_train /\ Becomes(NaiveExampleOp(Cur))
NaiveClassTrue ==
  pc = "n_class" /\ fr.j = heap[Caller.y].a[fr.i + 1] /\ Becomes(NaiveClassOp(Cur))
NaiveClassOther ==
  pc = "n_class" /\ fr.j # heap[Caller.y].a[fr.i + 1] /\ Becomes(NaiveClassOp(Cur))
NaiveRaise ==
  pc = "n_loop" /\ fr.i = fr.num_train /\ fr.num_train = 0 /\ Becomes(NaiveRaiseOp(Cur))
NaiveReturn ==
  pc = "n_loop" /\ fr.i = fr.num_train /\ fr.num_train # 0 /\ Becomes(NaiveReturnOp(Cur))
VecEnter == pc = "v_start" /\ Becomes(VecEnterOp(Cur))
VecScores == pc = "v_score" /\ Becomes(VecScoresOp(Cur))
VecLoss == pc = "v_loss" /\ Becomes(VecLossOp(Cur))
VecGrad == pc = "v_grad" /\ Becomes(VecGradOp(Cur))
VecReturn == pc = "v_reg" /\ Becomes(VecReturnOp(Cur))

Next ==
  \/ NaiveEnter
  \/ NaiveExample
  \/ NaiveClassTrue
  \/ NaiveClassOther
  \/ NaiveRaise
  \/ NaiveReturn
  \/ VecEnter
  \/ VecScores
  \/ VecLoss
  \/ VecGrad
  \/ VecReturn

Spec == Init /\ [][Next]_vars

\* one statement of the program, and the state a call sequence ends in
Step(S) ==
  CASE S.pc = "start" -> NaiveEnterOp(S)
    [] S.pc = "n_loop" /\ S.fr.i < S.fr.num_train -> NaiveExampleOp(S)
    [] S.pc = "n_class" -> NaiveClassOp(S)
    [] S.pc = "n_loop" /\ S.fr.i = S.fr.num_train /\ S.fr.num_train = 0 -> NaiveRaiseOp(S)
    [] S.pc = "n_loop" /\ S.fr.i = S.fr.num_train /\ S.fr.num_train # 0 -> NaiveReturnOp(S)
    [] S.pc = "v_start" -> VecEnterOp(S)
    [] S.pc = "v_score" -> VecScoresOp(S)
    [] S.pc = "v_loss" -> VecLossOp(S)
    [] S.pc = "v_grad" -> VecGradOp(S)
    [] S.pc = "v_reg" -> VecReturnOp(S)

RECURSIVE Run(_)
Run(S) == IF S.pc = "done" THEN S ELSE Run(Step(S))

\* ------------------------------------------- what the claims speak of
Fns == {"naive", "vec"}
Returned(f) == ret[f].kind = "return"
Result(f) == heap[ret[f].dW]
AtReturn == pc \in {"v_start", "done"}

NTrain == args.X.shape[1]
DFeat == args.W.shape[1]
NClass == args.W.shape[2]
WInt(d, c) == ConstOf(args.W.a[d][c])[1]
XInt(i, d) == ConstOf(args.X.a[i][d])[1]
Label(i) == args.y.a[i]

RECURSIVE IntSumTo(_, _)
IntSumTo(n, F) == IF n = 0 THEN 0 ELSE IntSumTo(n - 1, F) + F[n]

\* sum over W of its squared entries
SumSqW == IntSumTo(DFeat, [d \in 1..DFeat |-> IntSumTo(NClass, [c \in 1..NClass |-> WInt(d, c) * WInt(d, c)])])

\* the score X[i] . W[:, c]
RefScore(i, c) == IntSumTo(DFeat, [d \in 1..DFeat |-> XInt(i, d) * WInt(d, c)])
RefMax(i) == CHOOSE m \in {RefScore(i, c) : c \in 1..NClass} : \A c \in 1..NClass : RefScore(i, c) <= m

\* softmax[i, c] = e^z_c / sum_k e^z_k, every term scaled by e^-max; a term below
\* the smallest float is 0
RefSoftmax(i, c) ==
  LET m == RefMax(i)
      live == {k \in 1..NClass : m - RefScore(i, k) <= ExpUnderflow}
      P == {<<m - RefScore(i, k), Cardinality({l \in live : RefScore(i, l) = RefScore(i, k)})>> : k \in live}
  IN  IF c \in live THEN FracNum(m - RefScore(i, c), P) ELSE Zero

\* (1/N) sum_i X[i, d] (softmax[i, c] - 1[y[i] = c]) + 2 reg W[d, c]; for N = 0 the
\* float quotient 0/0, nan
RefGrad(d, c) ==
  NAdd(NDivInt(SumTo(NTrain, [i \in 1..NTrain |->
                         NScale(RInt(XInt(i, d)),
                                NSub(RefSoftmax(i, c), IF Label(i) = c - 1 THEN One ELSE Zero))]),
               NTrain),
       NInt(2 * args.reg * WInt(d, c)))

\* log(C)
LogOfInt(C) == IF C = 1 THEN Zero ELSE Fin([a \in {LogAtom({<<0, C>>})} |-> ROne])

\* the same arrays passed with reg = 0, run to the end
AtZeroReg ==
  Run([heap |-> <<args.W, args.X, args.y>>, reg |-> 0, pc |-> "start", fr |-> NoFrame,
       ret |-> [naive |-> NoResult, vec |-> NoResult]])

AllFinite(A) == \A d \in 1..A.shape[1] : \A c \in 1..A.shape[2] : IsFinite(A.a[d][c])
SomeSymbolic(A) == \E d \in 1..A.shape[1] : \E c \in 1..A.shape[2] : IsFinite(A.a[d][c]) /\ ~IsConst(A.a[d][c])
EqualScores == \A i \in 1..NTrain : \A c \in 1..NClass : RefScore(i, c) = RefScore(i, 1)

\* -------------------------------------------------------------- claims

\* C1: for every valid input the two implementations return the same loss and the
\* same gradient, element by element.
C1_SameLossAndGradient ==
  (Returned("naive") /\ Returned("vec")) =>
    /\ ret.naive.loss = ret.vec.loss
    /\ Result("naive").a = Result("vec").a

\* C2: no call has a side effect: W, X, y and reg hold what the caller passed, at
\* every statement and after each call, and a returned dW is a cell of its own.
C2_NoSideEffects ==
  /\ heap[Caller.W] = args.W
  /\ heap[Caller.X] = args.X
  /\ heap[Caller.y] = args.y
  /\ reg = args.reg
  /\ \A f \in Fns : Returned(f) => ret[f].dW \notin {Caller.W, Caller.X, Caller.y}
  /\ Returned("naive") /\ Returned("vec") => ret.naive.dW # ret.vec.dW

C2_Witness ==
  /\ pc = "done" /\ Returned("naive") /\ Returned("vec")
  /\ reg > 0 /\ SumSqW > 0
  /\ SomeSymbolic(Result("naive")) /\ SomeSymbolic(Result("vec"))

\* C3 (amended): the loss returned with reg is the loss returned with reg = 0 plus
\* reg * sum(W^2), the term not divided by N; a loss that is inf or nan at reg = 0
\* is the same inf or nan with reg.
C3_RegAddsSumSquares ==
  pc = "done" =>
    LET Z == AtZeroReg IN
    \A f \in Fns : Returned(f) =>
      /\ Z.ret[f].kind = "return"
      /\ ret[f].loss = NAdd(Z.ret[f].loss, NInt(reg * SumSqW))

C3_Witness ==
  /\ pc = "done" /\ Returned("naive") /\ Returned("vec")
  /\ reg > 0 /\ SumSqW > 0 /\ NTrain >= 2
  /\ IsFinite(ret.naive.loss) /\ ~IsConst(ret.naive.loss)
  /\ IsFinite(ret.vec.loss) /\ ~IsConst(ret.vec.loss)

StrictlyGreater(a, b) ==
  /\ IsFinite(a) /\ IsFinite(b)
  /\ IsConst(NSub(a, b)) /\ RLess(RZero, ConstOf(NSub(a, b)))

\* C3 as stated: with reg > 0 the loss is strictly greater than the loss at reg = 0
\* (put for the finite losses only).
C3_StrictIncrease ==
  pc = "done" =>
    LET Z == AtZeroReg IN
    \A f \in Fns : (Returned(f) /\ reg > 0 /\ IsFinite(Z.ret[f].loss)) =>
      StrictlyGreater(ret[f].loss, Z.ret[f].loss)

\* C4: every entry of a returned gradient is (1/N) sum_i X[i,d] (softmax[i,j] -
\* 1[y[i] = j]) + 2 reg W[d,j]: the true-label column alone gets softmax - 1, the
\* data term is divided by N and the regularization term is not.
C4_GradientFormula ==
  AtReturn =>
    \A f \in Fns : Returned(f) =>
      \A d \in 1..DFeat : \A c \in 1..NClass : Result(f).a[d][c] = RefGrad(d, c)

C4_Witness ==
  /\ pc = "done" /\ Returned("naive") /\ Returned("vec")
  /\ NTrain >= 2 /\ NClass >= 2 /\ reg > 0 /\ SumSqW > 0
  /\ \E i \in 1..NTrain : Label(i) # Label(1)
  /\ SomeSymbolic(Result("naive")) /\ SomeSymbolic(Result("vec"))

\* C5: with reg = 0, N >= 1 and the scores of every example equal across the
\* classes, the loss is log(C).
C5_EqualScoresLogC ==
  AtReturn =>
    \A f \in Fns : (Returned(f) /\ reg = 0 /\ NTrain >= 1 /\ EqualScores) =>
      ret[f].loss = LogOfInt(NClass)

C5_Witness ==
  /\ pc = "done" /\ Returned("naive") /\ Returned("vec")
  /\ reg = 0 /\ NTrain >= 2 /\ NClass >= 2 /\ EqualScores
  /\ \E i \in 1..NTrain : RefScore(i, 1) # 0
  /\ ret.vec.loss = LogOfInt(NClass)

IsExample ==
  /\ NTrain = 1 /\ DFeat >= 1 /\ reg = 0 /\ Label(1) = 0
  /\ \A d \in 1..DFeat : XInt(1, d) = 1 /\ \A c \in 1..NClass : WInt(d, c) = 0

\* C6: for W = zeros(D,C), X = ones(1,D), y = [0], reg = 0 the loss is log(C), column
\* 0 of dW is -(C-1)/C * X[0] and every other column is (1/C) * X[0].
C6_ZeroWeightsExample ==
  AtReturn =>
    \A f \in Fns : (Returned(f) /\ IsExample) =>
      /\ ret[f].loss = LogOfInt(NClass)
      /\ \A d \in 1..DFeat : \A c \in 1..NClass :
           Result(f).a[d][c] = Const(RNorm(IF c = 1 THEN -(NClass - 1) ELSE 1, NClass))

C6_Witness ==
  /\ pc = "done" /\ Returned("naive") /\ Returned("vec")
  /\ IsExample /\ DFeat >= 2 /\ NClass >= 2

\* C7: no returned loss and no returned gradient entry is nan or inf, however far
\* apart the scores of a row are.
C7_NoNanNoInf ==
  \A f \in Fns : (Returned(f) /\ NTrain >= 1) =>
    IsFinite(ret[f].loss) /\ AllFinite(Result(f))

\* C8: on an input of consistent shapes with the labels in [0,C) neither function
\* raises, and the two agree on whether the input is an error.
C8_NoErrorOnValidInput ==
  /\ \A f \in Fns : ret[f].kind # "raise"
  /\ pc = "done" => ret.naive.kind = ret.vec.kind

IsScalar(x) == DOMAIN x = {"tag", "v"} /\ x.tag \in {"fin", "inf", "ninf", "nan"}
HasShape(A, n, m) ==
  /\ A.shape = <<n, m>>
  /\ DOMAIN A.a = 1..n
  /\ \A r \in 1..n : DOMAIN A.a[r] = 1..m /\ \A c \in 1..m : IsScalar(A.a[r][c])

IsProbability(x) == x = Zero \/ PosForms(x) # {}
IsDistribution(row, C) ==
  /\ \A c \in 1..C : IsProbability(row[c])
  /\ SumTo(C, row) = One

\* C10: every softmax row is a probability distribution (entries >= 0, sum 1), the
\* largest exponential is exp(0) = 1 so the normalizing sum is at least 1; with
\* reg = 0 and N >= 1 every row of a returned gradient sums to zero over the classes.
C10_SoftmaxRowsAndGradientSum ==
  /\ pc = "n_class" =>
       /\ IsDistribution(heap[fr.s].a, NClass)
       /\ \E c \in 1..NClass : heap[fr.exp_score].a[c] = One
       /\ IsExpSum(SumTo(NClass, heap[fr.exp_score].a))
       /\ OneAtom \in DOMAIN SumTo(NClass, heap[fr.exp_score].a).v
  /\ pc \in {"v_loss", "v_grad"} =>
       \A i \in 1..NTrain :
         /\ IsDistribution(heap[fr.exp_score].a[i], NClass)
         /\ \E c \in 1..NClass : heap[fr.score].a[i][c] = Zero
         /\ \A c \in 1..NClass : ~RLess(RZero, ConstOf(heap[fr.score].a[i][c]))
  /\ AtReturn =>
       \A f \in Fns : (Returned(f) /\ reg = 0 /\ NTrain >= 1) =>
         \A d \in 1..DFeat : SumTo(NClass, Result(f).a[d]) = Zero

C10_Witness ==
  /\ pc = "done" /\ Returned("naive") /\ Returned("vec")
  /\ reg = 0 /\ NTrain >= 2 /\ NClass >= 3
  /\ SomeSymbolic(Result("naive")) /\ SomeSymbolic(Result("vec"))
  /\ \E d \in 1..DFeat : \E c \in 1..NClass : Result("vec").a[d][c] # Zero
====
